---- MODULE Spec2Model ----
(***************************************************************************)
(* The EmoRec frontend: the SpotifyAPI REST client (lib/spotify-api.ts),   *)
(* the Home page that drives it (app/page.tsx), the TrackCard badges and   *)
(* the debounced autocomplete inputs.                                      *)
(*                                                                         *)
(* The components share no mutable state (the client singleton holds only  *)
(* its base URL, set once in the constructor), so one behaviour follows    *)
(* one mounted component: `component` is chosen in Init and never changes. *)
(*                                                                         *)
(* JavaScript values.  An object is a function from property names to      *)
(* values; a property whose value is undefined is a property that is not   *)
(* in the domain (JSON.stringify, `x && ...` and `x || ...` do not tell    *)
(* the two apart).  null is the string Null where the other values are     *)
(* strings, and the empty tuple where they are objects.  Fractions are     *)
(* hundredths (0.7 is 70).                                                 *)
(*                                                                         *)
(* The pure functions of lib/spotify-utils.ts (formatDuration, the Spotify *)
(* URI pair, shuffleArray) are followed by SpecUtils: Init draws the call  *)
(* and its arguments, the actions apply the function.  Strings are         *)
(* sequences of one-character strings there.                               *)
(***************************************************************************)
EXTENDS Integers, Sequences, FiniteSets, TLC

\* ------------------------------------------------------------- bounds

\* HTTP requests one behaviour may issue.
MaxFetches == 3
\* The user clicks one of the first MaxPick buttons of the emotion selector.
MaxPick == 2

\* ------------------------------------------------------ JavaScript values

Null == "null"
None == <<>>
Some(v) == <<v>>

Has(obj, f) == f \in DOMAIN obj

\* `obj.f` used as a condition, for a string property: undefined and '' are falsy.
TruthyString(obj, f) == Has(obj, f) /\ obj[f] # ""

Min(a, b) == IF a < b THEN a ELSE b

\* A settled promise.
Fulfilled(v) == [state |-> "fulfilled", value |-> v, message |-> ""]
Rejected(m) == [state |-> "rejected", value |-> None, message |-> m]

\* What the network did with one request.  fetch() rejects (kind "network"), or
\* resolves with a Response whose `ok` is given and whose json() either rejects
\* with a SyntaxError (parses = FALSE) or resolves with `body`.
NetworkError(m) ==
    [kind |-> "network", ok |-> FALSE, parses |-> FALSE, body |-> None, message |-> m]
Response(ok, body) ==
    [kind |-> "response", ok |-> ok, parses |-> TRUE, body |-> body, message |-> ""]
BadJson(ok, m) ==
    [kind |-> "response", ok |-> ok, parses |-> FALSE, body |-> None, message |-> m]

\* The messages of the errors the runtime itself throws.
NetworkMessages == {"Failed to fetch"}
SyntaxMessages == {"Unexpected token < in JSON at position 0"}
TypeErrorMessage == "Cannot read properties of undefined (reading 'map')"

\* ------------------------------------------------ the backend's answers

SongHappy ==
    [song_name |-> "Happy", artist |-> "Pharrell Williams",
     spotify_id |-> "60nZcImufyMA1MKQY3dcCH", similarity_score |-> 92,
     audio_features |-> [valence |-> 96, energy |-> 81, danceability |-> 82]]
SongImagine ==
    [song_name |-> "Imagine", artist |-> "John Lennon", album |-> "Imagine",
     similarity_score |-> 89, duration_ms |-> 183000, popularity |-> 85]
SongCalm ==
    [song_name |-> "Weightless", artist |-> "Marconi Union", spotify_id |-> "",
     similarity_score |-> 70, preview_url |-> "https://p.scdn.co/w",
     external_url |-> "https://open.spotify.com/track/w",
     album_image |-> "https://i.scdn.co/w",
     audio_features |-> [valence |-> 30, energy |-> 70, danceability |-> 71]]

CollageHappy ==
    [image_base64 |-> "iVBORw0KGgo", dominant_colors |-> <<"#FFD700", "#FFA500">>,
     width |-> 800, height |-> 800]

\* 200 bodies of POST /generate-playlist; the last one breaks the contract (no
\* playlist), which the client meets with a TypeError.
BodyFull ==
    [playlist |-> <<SongHappy, SongImagine>>, mood_collage |-> CollageHappy,
     emotion_features |-> [valence |-> 90, energy |-> 80]]
BodyPlain == [playlist |-> <<SongCalm>>, combined_embedding |-> <<12, 34>>]
BodyEmpty == [playlist |-> <<>>]
BodyNoPlaylist == [status |-> "ok"]
GenerateBodies == {BodyFull, BodyPlain, BodyEmpty, BodyNoPlaylist}

\* Error bodies (FastAPI's {"detail": ...}, or something else).
ErrDetail == [detail |-> "At least one song or emotion is required"]
ErrEmptyDetail == [detail |-> ""]
ErrOther == [error |-> "internal"]
ErrorBodies == {ErrDetail, ErrEmptyDetail, ErrOther}

\* 200 bodies of GET /emotions.
BackendEmotions == {<<"joyful", "sad", "nostalgic">>, <<"calm">>}
EmotionsBodies == {[emotions |-> l] : l \in BackendEmotions}

\* 200 bodies of GET /health.
HealthBodies == {[status |-> "healthy", version |-> "0.1.0"]}

\* 200 bodies of GET /spotify/search: hits named the backend's way or Spotify's
\* way, no hit, and no `tracks` at all.
HitBackend ==
    [spotify_id |-> "3n3Ppam7vgaVa1iaRUc9Lp", song_name |-> "Mr. Brightside",
     artist |-> "The Killers", album |-> "Hot Fuss", popularity |-> 88]
HitSpotify == [id |-> "0VjIjW4GlUZAMYd2vXMi3b", name |-> "Blinding Lights", artist |-> "The Weeknd"]
TrackSearchBodies ==
    {[tracks |-> <<HitBackend, HitSpotify>>], [tracks |-> <<>>], [total |-> 0]}

\* 200 bodies of GET /spotify/artist/search.
ArtistQueen ==
    [spotify_id |-> "1dfeR4HaWDbWqFHLkxsg1d", name |-> "Queen", genres |-> <<"rock">>,
     popularity |-> 90, external_url |-> "https://open.spotify.com/artist/q"]
ArtistBare == [id |-> "7jy3rLJdDQY21OgRLCZ9sD", name |-> "Foo Fighters"]
ArtistSearchBodies == {[artists |-> <<ArtistQueen, ArtistBare>>], [artists |-> <<>>], [total |-> 0]}

\* 200 bodies of GET /spotify/track/{id}.
TrackBodies == {HitBackend}

\* ------------------------------------------------------- the REST client

DefaultNumResults == 20
DefaultLimit == 10

\* An object literal: the properties of `fields` whose value (an option) is given.
Object(fields, opt) == [f \in {g \in fields : Len(opt[g]) = 1} |-> opt[f][1]]

\* A property read, as an option.
Prop(obj, f) == IF Has(obj, f) THEN Some(obj[f]) ELSE None

\* `obj.f || obj.g` for string properties, as an option.
PropOr(obj, f, g) == IF TruthyString(obj, f) THEN Some(obj[f]) ELSE Prop(obj, g)

\* Number.prototype.toString for the limits the callers pass.
NumberToString(n) ==
    CASE n = 1 -> "1"
      [] n = 8 -> "8"
      [] n = 10 -> "10"
      [] OTHER -> "NaN"

\* A parameter with a default value; `arg` is an option.
OrDefault(arg, default) == IF Len(arg) = 1 THEN arg[1] ELSE default

Post(path, body) == [verb |-> "POST", path |-> path, query |-> None, body |-> body]
Get(path, query) == [verb |-> "GET", path |-> path, query |-> query, body |-> None]

\* generatePlaylist: the request it sends.
generatePlaylistFetch(request) == Post(<<"generate-playlist">>, request)

\* The ids `track-${Math.random().toString(36).substr(2, 9)}` can produce: nine
\* base-36 digits, or fewer (none when the random number is 0).
GeneratedIds == {"track-k3j9x0q2a", "track-"}

PassedThrough ==
    {"artist", "album", "preview_url", "similarity_score", "external_url",
     "duration_ms", "popularity", "album_image"}

\* MapSong reading `song.name`, which the backend does not send.
MapSongReadsName(song, generated) ==
    LET opt == [f \in {"id", "name"} \cup PassedThrough |->
                  CASE f = "id" ->
                         IF TruthyString(song, "spotify_id")
                         THEN Some(song.spotify_id) ELSE Some(generated)
                    [] OTHER -> Prop(song, f)]
    IN Object(DOMAIN opt, opt)

\* generatePlaylist: the SpotifyTrack built from one song of the response.
MapSong(song, generated) ==
    LET opt == [f \in {"id", "name"} \cup PassedThrough |->
                  CASE f = "id" ->
                         IF TruthyString(song, "spotify_id")
                         THEN Some(song.spotify_id) ELSE Some(generated)
                    [] f = "name" -> Prop(song, "song_name")
                    [] OTHER -> Prop(song, f)]
    IN Object(DOMAIN opt, opt)

\* generatePlaylist: the PlaylistGenerationResponse built from a 200 body.
\* `generated[i]` is the id Math.random yields for the i-th song, if it needs one.
MapResponse(data, generated) ==
    LET opt == [f \in {"playlist", "emotion_features", "combined_embedding"} |->
                  CASE f = "playlist" ->
                         Some([i \in 1..Len(data.playlist) |->
                                 MapSong(data.playlist[i], generated[i])])
                    [] OTHER -> Prop(data, f)]
    IN Object(DOMAIN opt, opt)

FailedToGenerate == "Failed to generate playlist"

\* generatePlaylist: how its promise settles.
generatePlaylistSettle(http, generated) ==
    IF http.kind = "network" THEN Rejected(http.message)
    ELSE IF ~http.parses THEN Rejected(http.message)
    ELSE IF ~http.ok
    THEN Rejected(IF TruthyString(http.body, "detail")
                  THEN http.body.detail ELSE FailedToGenerate)
    ELSE IF ~Has(http.body, "playlist") THEN Rejected(TypeErrorMessage)
    ELSE Fulfilled(MapResponse(http.body, generated))

\* getEmotions.
getEmotionsFetch == Get(<<"emotions">>, None)

FallbackEmotions ==
    <<"happy", "sad", "energetic", "calm", "angry", "melancholic", "hopeful",
      "romantic", "anxious", "peaceful">>

\* getEmotions with the catch of searchTracks: an empty list.
getEmotionsSettleEmpty(http) ==
    IF http.kind = "network" \/ ~http.ok \/ ~http.parses
    THEN Fulfilled(<<>>)
    ELSE Fulfilled(http.body.emotions)

getEmotionsSettle(http) ==
    IF http.kind = "network" \/ ~http.ok \/ ~http.parses
    THEN Fulfilled(FallbackEmotions)
    ELSE Fulfilled(http.body.emotions)

\* healthCheck.
healthCheckFetch == Get(<<"health">>, None)

\* healthCheck with the catch of searchTracks: the failure becomes a value.
healthCheckSettleSwallows(http) ==
    IF http.kind = "network" \/ ~http.ok \/ ~http.parses
    THEN Fulfilled([status |-> "unknown", version |-> ""])
    ELSE Fulfilled(http.body)

healthCheckSettle(http) ==
    IF http.kind = "network" THEN Rejected(http.message)
    ELSE IF ~http.ok THEN Rejected("Health check failed")
    ELSE IF ~http.parses THEN Rejected(http.message)
    ELSE Fulfilled(http.body)

\* searchByEmotion(emotion, numResults = 20): the request it hands to
\* generatePlaylist.  The method declares two parameters; a third argument of a
\* call is dropped by the language.
searchByEmotion(emotion, numResults) ==
    [emotion |-> <<emotion>>, num_results |-> OrDefault(numResults, DefaultNumResults)]

\* getRecommendations testing `emotion !== undefined` instead of its truthiness.
getRecommendationsKeepsEmpty(seedTracks, emotion, numResults) ==
    LET songs == [i \in 1..Len(seedTracks) |->
                    LET t == seedTracks[i]
                        o == [f \in {"song_name", "artist", "spotify_id"} |->
                                CASE f = "song_name" -> Prop(t, "name")
                                  [] OTHER -> Prop(t, f)]
                    IN Object(DOMAIN o, o)]
        opt == [f \in {"songs", "emotion", "num_results"} |->
                  CASE f = "songs" -> Some(songs)
                    [] f = "emotion" ->
                         IF Len(emotion) = 1 THEN Some(<<emotion[1]>>) ELSE None
                    [] OTHER -> Some(OrDefault(numResults, DefaultNumResults))]
    IN Object(DOMAIN opt, opt)

\* getRecommendations(seedTracks, emotion?, numResults = 20): the request it
\* hands to generatePlaylist.
getRecommendations(seedTracks, emotion, numResults) ==
    LET songs == [i \in 1..Len(seedTracks) |->
                    LET t == seedTracks[i]
                        o == [f \in {"song_name", "artist", "spotify_id"} |->
                                CASE f = "song_name" -> Prop(t, "name")
                                  [] OTHER -> Prop(t, f)]
                    IN Object(DOMAIN o, o)]
        opt == [f \in {"songs", "emotion", "num_results"} |->
                  CASE f = "songs" -> Some(songs)
                    [] f = "emotion" ->
                         IF Len(emotion) = 1 /\ emotion[1] # ""
                         THEN Some(<<emotion[1]>>) ELSE None
                    [] OTHER -> Some(OrDefault(numResults, DefaultNumResults))]
    IN Object(DOMAIN opt, opt)

\* searchTrack(songName, artist?) and searchTracks(songName, artist?, limit = 10).
SearchQuery(songName, artist, limit) ==
    LET opt == [f \in {"song_name", "limit", "artist"} |->
                  CASE f = "song_name" -> Some(songName)
                    [] f = "limit" -> Some(limit)
                    [] OTHER -> IF Len(artist) = 1 /\ artist[1] # "" THEN artist ELSE None]
    IN Object(DOMAIN opt, opt)

searchTrackFetch(songName, artist) ==
    Get(<<"spotify", "search">>, SearchQuery(songName, artist, "1"))

searchTrackSettle(http) ==
    IF http.kind = "network" THEN Rejected(http.message)
    ELSE IF ~http.ok THEN Rejected("Failed to search track")
    ELSE IF ~http.parses THEN Rejected(http.message)
    ELSE Fulfilled(IF Has(http.body, "tracks") /\ Len(http.body.tracks) > 0
                   THEN Some(http.body.tracks[1]) ELSE None)

searchTracksFetch(songName, artist, limit) ==
    Get(<<"spotify", "search">>,
        SearchQuery(songName, artist, NumberToString(OrDefault(limit, DefaultLimit))))

MapHit(track) ==
    LET opt == [f \in {"id", "name"} \cup PassedThrough |->
                  CASE f = "id" -> PropOr(track, "spotify_id", "id")
                    [] f = "name" -> PropOr(track, "song_name", "name")
                    [] f = "similarity_score" -> Some(0)
                    [] OTHER -> Prop(track, f)]
    IN Object(DOMAIN opt, opt)

searchTracksSettle(http) ==
    IF http.kind = "network" \/ ~http.ok \/ ~http.parses THEN Fulfilled(<<>>)
    ELSE Fulfilled(IF Has(http.body, "tracks")
                   THEN [i \in 1..Len(http.body.tracks) |-> MapHit(http.body.tracks[i])]
                   ELSE <<>>)

\* searchArtists(artistName, limit = 10).
searchArtistsFetch(artistName, limit) ==
    Get(<<"spotify", "artist", "search">>,
        [artist_name |-> artistName,
         limit |-> NumberToString(OrDefault(limit, DefaultLimit))])

MapArtist(artist) ==
    LET opt == [f \in {"id", "name", "genres", "popularity", "image_url", "external_url"} |->
                  CASE f = "id" -> PropOr(artist, "spotify_id", "id")
                    [] f = "genres" -> IF Has(artist, "genres") THEN Some(artist.genres) ELSE Some(<<>>)
                    [] f = "popularity" ->
                         IF Has(artist, "popularity") THEN Some(artist.popularity) ELSE Some(0)
                    [] OTHER -> Prop(artist, f)]
    IN Object(DOMAIN opt, opt)

searchArtistsSettle(http) ==
    IF http.kind = "network" \/ ~http.ok \/ ~http.parses THEN Fulfilled(<<>>)
    ELSE Fulfilled(IF Has(http.body, "artists")
                   THEN [i \in 1..Len(http.body.artists) |-> MapArtist(http.body.artists[i])]
                   ELSE <<>>)

\* getTrackById(trackId).
getTrackByIdFetch(trackId) == Get(<<"spotify", "track", trackId>>, None)

getTrackByIdSettle(http) ==
    IF http.kind = "network" THEN Rejected(http.message)
    ELSE IF ~http.ok THEN Rejected("Failed to get track")
    ELSE IF ~http.parses THEN Rejected(http.message)
    ELSE Fulfilled(http.body)


\* The nine methods, as a caller reaches them.
Methods ==
    {"generatePlaylist", "getEmotions", "healthCheck", "searchByEmotion",
     "getRecommendations", "searchTrack", "searchTracks", "searchArtists",
     "getTrackById"}

\* The methods that end in generatePlaylist.
GeneratingMethods == {"generatePlaylist", "searchByEmotion", "getRecommendations"}

\* The request a call sends.
ApiFetch(method, args) ==
    CASE method = "generatePlaylist" -> generatePlaylistFetch(args.request)
      [] method = "getEmotions" -> getEmotionsFetch
      [] method = "healthCheck" -> healthCheckFetch
      [] method = "searchByEmotion" ->
           generatePlaylistFetch(searchByEmotion(args.emotion, args.numResults))
      [] method = "getRecommendations" ->
           generatePlaylistFetch(
               getRecommendations(args.seedTracks, args.emotion, args.numResults))
      [] method = "searchTrack" -> searchTrackFetch(args.songName, args.artist)
      [] method = "searchTracks" -> searchTracksFetch(args.songName, args.artist, args.limit)
      [] method = "searchArtists" -> searchArtistsFetch(args.artistName, args.limit)
      [] method = "getTrackById" -> getTrackByIdFetch(args.trackId)

\* How the promise a call returned settles.
ApiSettle(method, http, generated) ==
    CASE method \in GeneratingMethods -> generatePlaylistSettle(http, generated)
      [] method = "getEmotions" -> getEmotionsSettle(http)
      [] method = "healthCheck" -> healthCheckSettle(http)
      [] method = "searchTrack" -> searchTrackSettle(http)
      [] method = "searchTracks" -> searchTracksSettle(http)
      [] method = "searchArtists" -> searchArtistsSettle(http)
      [] method = "getTrackById" -> getTrackByIdSettle(http)

\* Whether the method reads the body of a response that is not ok (the others
\* throw on `!response.ok` without reading it).
ReadsErrorBody(method) == method \in GeneratingMethods

\* The 200 bodies the backend may answer a method's request with.
OkBodies(method) ==
    CASE method \in GeneratingMethods -> GenerateBodies
      [] method = "getEmotions" -> EmotionsBodies
      [] method = "healthCheck" -> HealthBodies
      [] method \in {"searchTrack", "searchTracks"} -> TrackSearchBodies
      [] method = "searchArtists" -> ArtistSearchBodies
      [] method = "getTrackById" -> TrackBodies

\* The ids Math.random may yield while a body is mapped, one per song.
GeneratedFor(body) ==
    IF Has(body, "playlist") THEN [1..Len(body.playlist) -> GeneratedIds] ELSE {<<>>}

\* ------------------------------------------------------------ TrackCard

BadgeThreshold == 70

\* The badges TrackCard renders for a track.
TrackCardBadges(track) ==
    IF ~Has(track, "audio_features") THEN {}
    ELSE (IF track.audio_features.energy > BadgeThreshold THEN {"High Energy"} ELSE {})
         \cup (IF track.audio_features.valence > BadgeThreshold THEN {"Upbeat"} ELSE {})
         \cup (IF track.audio_features.danceability > BadgeThreshold
               THEN {"Danceable"} ELSE {})

\* ----------------------------------------------------------------- state

VARIABLES
    component,        \* which component this behaviour follows
    fetchCount,       \* fetch() calls made so far
    \* Home (app/page.tsx)
    mounted,          \* the mount effect has run
    emotions, selectedEmotion, isLoading, error, playlistData, numTracks,
    emotionsCall,     \* the getEmotions call of the mount effect
    generateCall,     \* the searchByEmotion call of handleGeneratePlaylist
    \* a caller of the client (lib/examples.ts, scripts/test-api.ts)
    scriptCall,       \* the call being awaited, or the last one
    scriptResult,     \* how its promise settled
    \* SongAutocomplete / ArtistAutocomplete
    inputValue, suggestions, showSuggestions, acIsLoading,
    debounceTimer,    \* debounceTimer.current: "null", or the newest timer, "live" or "dead"
    pendingTimers,    \* the timeouts not yet fired or cleared: the value each captured, its age in ms
    hasCleanup,       \* the last run of the effect returned its cleanup
    sinceChange,      \* ms since inputValue last changed (since the mount before), up to the delay
    searches,         \* the searchTracks / searchArtists calls in flight
    \* a call of a function of lib/spotify-utils.ts
    util,             \* the function called, "none" when none is
    utilArgs,         \* its arguments
    utilPc,           \* "idle", "loop" (inside shuffleArray's for) or "returned"
    shuffled, shuffleI,   \* shuffleArray's locals `shuffled` and `i`
    utilResult        \* the value returned

homeVars ==
    <<mounted, emotions, selectedEmotion, isLoading, error, playlistData, numTracks,
      emotionsCall, generateCall>>
scriptVars == <<scriptCall, scriptResult>>
acVars ==
    <<inputValue, suggestions, showSuggestions, acIsLoading, debounceTimer,
      pendingTimers, hasCleanup, sinceChange, searches>>
utilVars == <<util, utilArgs, utilPc, shuffled, shuffleI, utilResult>>
vars == <<component, fetchCount, homeVars, scriptVars, acVars, utilVars>>

Components == {"home", "script", "song", "artist"}

DEFAULT_EMOTIONS ==
    <<"happy", "sad", "energetic", "calm", "angry", "melancholic", "hopeful",
      "romantic", "anxious", "peaceful">>

\* The <option>s of the numTracks <select>.
NumTracksOptions == {10, 20, 30, 50}

\* A call that is not in progress and has not been made.
Idle == [phase |-> "idle", ok |-> FALSE, req |-> None, http |-> None]
Fetching(req) == [phase |-> "fetch", ok |-> FALSE, req |-> Some(req), http |-> None]
Parsing(call, ok) == [call EXCEPT !.phase = "json", !.ok = ok]
Done(http) == [phase |-> "done", ok |-> http.ok, req |-> None, http |-> Some(http)]

InFlight(call) == call.phase \in {"fetch", "json"}

Init ==
    /\ component \in Components
    /\ fetchCount = 0
    /\ mounted = FALSE
    /\ emotions = DEFAULT_EMOTIONS
    /\ selectedEmotion = Null
    /\ isLoading = FALSE
    /\ error = Null
    /\ playlistData = None
    /\ numTracks = 20
    /\ emotionsCall = Idle
    /\ generateCall = Idle
    /\ scriptCall = [method |-> "none", args |-> None, call |-> Idle]
    /\ scriptResult = None
    /\ inputValue = <<>>
    /\ suggestions = <<>>
    /\ showSuggestions = FALSE
    /\ acIsLoading = FALSE
    /\ debounceTimer = "null"
    /\ pendingTimers = <<>>
    /\ hasCleanup = FALSE
    /\ sinceChange = 0
    /\ searches = <<>>
    /\ util = "none"
    /\ utilArgs = <<>>
    /\ utilPc = "idle"
    /\ shuffled = <<>>
    /\ shuffleI = 0
    /\ utilResult = None

\* ------------------------------------------------------------------ Home

\* The mount effect: spotifyAPI.getEmotions().then(setEmotions).catch(...).
Mount ==
    /\ component = "home"
    /\ ~mounted
    /\ fetchCount < MaxFetches
    /\ mounted' = TRUE
    /\ emotionsCall' = Fetching(getEmotionsFetch)
    /\ fetchCount' = fetchCount + 1
    /\ UNCHANGED <<utilVars, component, emotions, selectedEmotion, isLoading, error, playlistData,
                   numTracks, generateCall, scriptVars, acVars>>

\* .then(setEmotions) / .catch(keep the defaults), once getEmotions has settled.
EmotionsSettled(http) ==
    LET r == getEmotionsSettle(http)
    IN /\ emotions' = IF r.state = "fulfilled" THEN r.value ELSE emotions
       /\ emotionsCall' = Done(http)
       /\ UNCHANGED <<utilVars, component, fetchCount, mounted, selectedEmotion, isLoading, error,
                      playlistData, numTracks, generateCall, scriptVars, acVars>>

EmotionsFetchRejects ==
    /\ emotionsCall.phase = "fetch"
    /\ \E m \in NetworkMessages : EmotionsSettled(NetworkError(m))

EmotionsFetchResolves ==
    /\ emotionsCall.phase = "fetch"
    /\ \/ /\ emotionsCall' = Parsing(emotionsCall, TRUE)
          /\ UNCHANGED <<utilVars, component, fetchCount, mounted, emotions, selectedEmotion,
                         isLoading, error, playlistData, numTracks, generateCall,
                         scriptVars, acVars>>
       \/ EmotionsSettled(Response(FALSE, None))

EmotionsJsonSettles ==
    /\ emotionsCall.phase = "json"
    /\ \/ \E body \in EmotionsBodies : EmotionsSettled(Response(TRUE, body))
       \/ \E m \in SyntaxMessages : EmotionsSettled(BadJson(TRUE, m))

\* The buttons of EmotionSelector the user clicks.
Picks == {emotions[i] : i \in 1..Min(MaxPick, Len(emotions))}

\* EmotionSelector's onSelect={setSelectedEmotion}.
SelectEmotion ==
    /\ component = "home" /\ mounted
    /\ \E e \in Picks : selectedEmotion' = e
    /\ UNCHANGED <<utilVars, component, fetchCount, mounted, emotions, isLoading, error,
                   playlistData, numTracks, emotionsCall, generateCall, scriptVars, acVars>>

\* The <select>'s onChange: setNumTracks(Number(e.target.value)).
SetNumTracks ==
    /\ component = "home" /\ mounted
    /\ \E n \in NumTracksOptions : numTracks' = n
    /\ UNCHANGED <<utilVars, component, fetchCount, mounted, emotions, selectedEmotion, isLoading,
                   error, playlistData, emotionsCall, generateCall, scriptVars, acVars>>

\* handleGeneratePlaylist without its `if (!selectedEmotion) return`.
handleGeneratePlaylistUnguarded ==
    /\ fetchCount < MaxFetches
    /\ isLoading' = TRUE
    /\ error' = Null
    /\ generateCall' =
           Fetching(generatePlaylistFetch(searchByEmotion(selectedEmotion, Some(numTracks))))
    /\ fetchCount' = fetchCount + 1
    /\ UNCHANGED <<utilVars, component, mounted, emotions, selectedEmotion, playlistData,
                   numTracks, emotionsCall, scriptVars, acVars>>

\* handleGeneratePlaylist, up to its await: the call is
\* spotifyAPI.searchByEmotion(selectedEmotion, numTracks, true).
handleGeneratePlaylist ==
    \/ /\ selectedEmotion = Null
       /\ UNCHANGED vars
    \/ /\ selectedEmotion # Null
       /\ fetchCount < MaxFetches
       /\ isLoading' = TRUE
       /\ error' = Null
       /\ generateCall' =
              Fetching(generatePlaylistFetch(searchByEmotion(selectedEmotion, Some(numTracks))))
       /\ fetchCount' = fetchCount + 1
       /\ UNCHANGED <<utilVars, component, mounted, emotions, selectedEmotion, playlistData,
                      numTracks, emotionsCall, scriptVars, acVars>>

\* The Generate button's onClick; the button is disabled while isLoading.
GenerateClick ==
    /\ component = "home" /\ mounted
    /\ ~isLoading
    /\ handleGeneratePlaylist

\* The catch calling searchByEmotion again with the request that failed.
GenerateSettledRetries(http, generated) ==
    LET r == generatePlaylistSettle(http, generated)
    IN IF r.state = "rejected" /\ fetchCount < MaxFetches
       THEN /\ generateCall' = Fetching(generateCall.req[1])
            /\ fetchCount' = fetchCount + 1
            /\ UNCHANGED <<utilVars, component, mounted, emotions, selectedEmotion, isLoading, error,
                           playlistData, numTracks, emotionsCall, scriptVars, acVars>>
       ELSE /\ playlistData' = IF r.state = "fulfilled" THEN Some(r.value) ELSE playlistData
            /\ error' = IF r.state = "fulfilled" THEN error ELSE r.message
            /\ isLoading' = FALSE
            /\ generateCall' = Done(http)
            /\ UNCHANGED <<utilVars, component, fetchCount, mounted, emotions, selectedEmotion,
                           numTracks, emotionsCall, scriptVars, acVars>>

\* The catch setting the fixed text whatever was thrown.
GenerateSettledFixedText(http, generated) ==
    LET r == generatePlaylistSettle(http, generated)
    IN /\ playlistData' = IF r.state = "fulfilled" THEN Some(r.value) ELSE playlistData
       /\ error' = IF r.state = "fulfilled" THEN error ELSE FailedToGenerate
       /\ isLoading' = FALSE
       /\ generateCall' = Done(http)
       /\ UNCHANGED <<utilVars, component, fetchCount, mounted, emotions, selectedEmotion,
                      numTracks, emotionsCall, scriptVars, acVars>>

\* setIsLoading(false) after setPlaylistData instead of in a finally.
GenerateSettledNoFinally(http, generated) ==
    LET r == generatePlaylistSettle(http, generated)
    IN /\ playlistData' = IF r.state = "fulfilled" THEN Some(r.value) ELSE playlistData
       /\ error' = IF r.state = "fulfilled" THEN error ELSE r.message
       /\ isLoading' = IF r.state = "fulfilled" THEN FALSE ELSE isLoading
       /\ generateCall' = Done(http)
       /\ UNCHANGED <<utilVars, component, fetchCount, mounted, emotions, selectedEmotion,
                      numTracks, emotionsCall, scriptVars, acVars>>

\* handleGeneratePlaylist after its await: setPlaylistData, or the catch's
\* setError (every rejection of the client is an Error); then the finally.
GenerateSettled(http, generated) ==
    LET r == generatePlaylistSettle(http, generated)
    IN /\ playlistData' = IF r.state = "fulfilled" THEN Some(r.value) ELSE playlistData
       /\ error' = IF r.state = "fulfilled" THEN error ELSE r.message
       /\ isLoading' = FALSE
       /\ generateCall' = Done(http)
       /\ UNCHANGED <<utilVars, component, fetchCount, mounted, emotions, selectedEmotion,
                      numTracks, emotionsCall, scriptVars, acVars>>

GenerateFetchRejects ==
    /\ generateCall.phase = "fetch"
    /\ \E m \in NetworkMessages : GenerateSettled(NetworkError(m), <<>>)

GenerateFetchResolves ==
    /\ generateCall.phase = "fetch"
    /\ \E ok \in BOOLEAN : generateCall' = Parsing(generateCall, ok)
    /\ UNCHANGED <<utilVars, component, fetchCount, mounted, emotions, selectedEmotion, isLoading,
                   error, playlistData, numTracks, emotionsCall, scriptVars, acVars>>

GenerateJsonSettles ==
    /\ generateCall.phase = "json"
    /\ \/ /\ generateCall.ok
          /\ \E body \in GenerateBodies : \E generated \in GeneratedFor(body) :
                 GenerateSettled(Response(TRUE, body), generated)
       \/ /\ ~generateCall.ok
          /\ \E body \in ErrorBodies : GenerateSettled(Response(FALSE, body), <<>>)
       \/ \E m \in SyntaxMessages : GenerateSettled(BadJson(generateCall.ok, m), <<>>)

\* What Home renders.
ShowsSpinner == isLoading
ShowsResults == ~isLoading /\ Len(playlistData) = 1
ShowsMoodCollage == ShowsResults /\ Has(playlistData[1], "mood_collage")
ShowsError == error # Null /\ error # ""
ShowsEmptyState == ~isLoading /\ Len(playlistData) = 0 /\ ~ShowsError
GenerateDisabled == selectedEmotion = Null \/ isLoading

NextHome ==
    \/ Mount \/ EmotionsFetchRejects \/ EmotionsFetchResolves \/ EmotionsJsonSettles
    \/ SelectEmotion \/ SetNumTracks \/ GenerateClick
    \/ GenerateFetchRejects \/ GenerateFetchResolves \/ GenerateJsonSettles


\* --------------------------------------------------- a caller of the client

NoArgs == [arity |-> 0]

SeedTracks ==
    <<[name |-> "Bohemian Rhapsody", artist |-> "Queen"],
      [name |-> "Hotel California", artist |-> "Eagles",
       spotify_id |-> "40riOy7x9W7GXjyGp4pjAv"]>>

\* The arguments the callers pass (lib/examples.ts, scripts/test-api.ts and the
\* API reference), with the optional ones given and omitted.
ArgsOf(method) ==
    CASE method = "generatePlaylist" ->
           {[request |-> [emotion |-> <<"calm", "peaceful">>, num_results |-> 20,
                          include_collage |-> TRUE]],
            [request |-> [emotion |-> <<"happy">>, num_results |-> 1000]]}
      [] method \in {"getEmotions", "healthCheck"} -> {NoArgs}
      [] method = "searchByEmotion" ->
           {[emotion |-> "happy", numResults |-> Some(10), includeCollage |-> Some(TRUE)],
            [emotion |-> "energetic", numResults |-> Some(5), includeCollage |-> Some(FALSE)],
            [emotion |-> "happy", numResults |-> None, includeCollage |-> None]}
      [] method = "getRecommendations" ->
           {[seedTracks |-> SeedTracks, emotion |-> Some("energetic"), numResults |-> Some(5)],
            [seedTracks |-> SeedTracks, emotion |-> None, numResults |-> None],
            [seedTracks |-> SeedTracks, emotion |-> Some(""), numResults |-> Some(30)]}
      [] method = "searchTrack" ->
           {[songName |-> "Imagine", artist |-> None],
            [songName |-> "Imagine", artist |-> Some("John Lennon")]}
      [] method = "searchTracks" ->
           {[songName |-> "Imagine", artist |-> None, limit |-> Some(8)],
            [songName |-> "Imagine", artist |-> Some("John Lennon"), limit |-> None]}
      [] method = "searchArtists" ->
           {[artistName |-> "Queen", limit |-> Some(8)],
            [artistName |-> "Queen", limit |-> None]}
      [] method = "getTrackById" -> {[trackId |-> "60nZcImufyMA1MKQY3dcCH"]}

\* `await spotifyAPI.<method>(...args)`: the call, up to its fetch.
ScriptCalls ==
    /\ component = "script"
    /\ ~InFlight(scriptCall.call)
    /\ fetchCount < MaxFetches
    /\ \E method \in Methods : \E args \in ArgsOf(method) :
           scriptCall' = [method |-> method, args |-> args,
                          call |-> Fetching(ApiFetch(method, args))]
    /\ scriptResult' = None
    /\ fetchCount' = fetchCount + 1
    /\ UNCHANGED <<utilVars, component, homeVars, acVars>>

\* The awaited promise settles.
ScriptSettled(http, generated) ==
    /\ scriptResult' = Some(ApiSettle(scriptCall.method, http, generated))
    /\ scriptCall' = [scriptCall EXCEPT !.call = Done(http)]
    /\ UNCHANGED <<utilVars, component, fetchCount, homeVars, acVars>>

ScriptFetchRejects ==
    /\ scriptCall.call.phase = "fetch"
    /\ \E m \in NetworkMessages : ScriptSettled(NetworkError(m), <<>>)

ScriptFetchResolves ==
    /\ scriptCall.call.phase = "fetch"
    /\ \/ /\ scriptCall' = [scriptCall EXCEPT !.call = Parsing(scriptCall.call, TRUE)]
          /\ UNCHANGED <<utilVars, component, fetchCount, homeVars, scriptResult, acVars>>
       \/ /\ ReadsErrorBody(scriptCall.method)
          /\ scriptCall' = [scriptCall EXCEPT !.call = Parsing(scriptCall.call, FALSE)]
          /\ UNCHANGED <<utilVars, component, fetchCount, homeVars, scriptResult, acVars>>
       \/ /\ ~ReadsErrorBody(scriptCall.method)
          /\ ScriptSettled(Response(FALSE, None), <<>>)

ScriptJsonSettles ==
    /\ scriptCall.call.phase = "json"
    /\ \/ /\ scriptCall.call.ok
          /\ \E body \in OkBodies(scriptCall.method) : \E generated \in GeneratedFor(body) :
                 ScriptSettled(Response(TRUE, body), generated)
       \/ /\ ~scriptCall.call.ok
          /\ \E body \in ErrorBodies : ScriptSettled(Response(FALSE, body), <<>>)
       \/ \E m \in SyntaxMessages : ScriptSettled(BadJson(scriptCall.call.ok, m), <<>>)

NextScript == ScriptCalls \/ ScriptFetchRejects \/ ScriptFetchResolves \/ ScriptJsonSettles

\* ------------------------------------- SongAutocomplete / ArtistAutocomplete

\* Strings the user edits are sequences of characters.
Whitespace == {" "}

RECURSIVE TrimStart(_)
TrimStart(str) ==
    IF Len(str) > 0 /\ Head(str) \in Whitespace THEN TrimStart(Tail(str)) ELSE str

RECURSIVE TrimEnd(_)
TrimEnd(str) ==
    IF Len(str) > 0 /\ str[Len(str)] \in Whitespace
    THEN TrimEnd(SubSeq(str, 1, Len(str) - 1)) ELSE str

\* String.prototype.trim.
Trim(str) == TrimEnd(TrimStart(str))

\* What the user makes of the input: typing, deleting, pasting.
InputValues ==
    {<<>>, <<"a">>, <<" ", "a", " ">>, <<"a", "b">>, <<" ", "a", "b">>}

MinQueryLength == 2
SuggestionLimit == 8
\* setTimeout(..., 300)
DebounceDelay == 300
\* The times that pass between two events, in ms.
TimeSteps == {100, 150}

RemoveAt(seq, i) == SubSeq(seq, 1, i - 1) \o SubSeq(seq, i + 1, Len(seq))

\* clearTimeout(debounceTimer.current), when the ref is set: the newest timer,
\* if it is still pending, is the last one of pendingTimers.
ClearedTimers(ref, timers) ==
    IF ref = "live" THEN SubSeq(timers, 1, Len(timers) - 1) ELSE timers
ClearedRef(ref) == IF ref = "live" THEN "dead" ELSE ref

\* The effect with neither its cleanup nor the clearTimeout of its body: a
\* change leaves the timeout of the value before pending.
RunEffectNoCancel(value) ==
    IF Len(Trim(value)) < MinQueryLength
    THEN /\ suggestions' = <<>>
         /\ showSuggestions' = FALSE
         /\ hasCleanup' = FALSE
         /\ UNCHANGED <<debounceTimer, pendingTimers>>
    ELSE /\ debounceTimer' = "live"
         /\ pendingTimers' = Append(pendingTimers, [value |-> value, age |-> 0])
         /\ hasCleanup' = TRUE
         /\ UNCHANGED <<suggestions, showSuggestions>>

\* The effect on [inputValue]: the cleanup of its last run, then its body for
\* the new value.
RunEffect(value) ==
    LET ref0 == IF hasCleanup THEN ClearedRef(debounceTimer) ELSE debounceTimer
        timers0 == IF hasCleanup THEN ClearedTimers(debounceTimer, pendingTimers)
                   ELSE pendingTimers
    IN IF Len(Trim(value)) < MinQueryLength
       THEN /\ suggestions' = <<>>
            /\ showSuggestions' = FALSE
            /\ debounceTimer' = ref0
            /\ pendingTimers' = timers0
            /\ hasCleanup' = FALSE
       ELSE /\ debounceTimer' = "live"
            /\ pendingTimers' =
                   Append(ClearedTimers(ref0, timers0), [value |-> value, age |-> 0])
            /\ hasCleanup' = TRUE
            /\ UNCHANGED <<suggestions, showSuggestions>>

\* The input's onChange: setInputValue(e.target.value).
ChangeInput ==
    /\ component \in {"song", "artist"}
    /\ \E value \in InputValues \ {inputValue} :
           /\ inputValue' = value
           /\ RunEffect(value)
    /\ sinceChange' = 0
    /\ UNCHANGED <<utilVars, component, fetchCount, homeVars, scriptVars, acIsLoading, searches>>

\* Time passes with no event: the timeouts age.  A timeout that is due fires
\* when the event loop gets to it, so time may pass beyond its delay.
TimePasses ==
    /\ component \in {"song", "artist"}
    /\ \/ sinceChange < DebounceDelay
       \/ \E i \in 1..Len(pendingTimers) : pendingTimers[i].age < DebounceDelay
    /\ \E d \in TimeSteps :
           /\ sinceChange' = Min(sinceChange + d, DebounceDelay)
           /\ pendingTimers' =
                  [i \in 1..Len(pendingTimers) |->
                     [pendingTimers[i] EXCEPT !.age = Min(@ + d, DebounceDelay)]]
    /\ UNCHANGED <<utilVars, component, fetchCount, homeVars, scriptVars, inputValue,
                   suggestions, showSuggestions, acIsLoading, debounceTimer, hasCleanup,
                   searches>>

\* The request of the search a fired timer makes.
SearchFetch(value) ==
    IF component = "song"
    THEN searchTracksFetch(value, None, Some(SuggestionLimit))
    ELSE searchArtistsFetch(value, Some(SuggestionLimit))

\* The debounce timeout fires: setIsLoading(true) and the search, up to its fetch.
TimerFires ==
    /\ component \in {"song", "artist"}
    /\ fetchCount < MaxFetches
    /\ \E i \in 1..Len(pendingTimers) :
           /\ pendingTimers[i].age >= DebounceDelay
           /\ pendingTimers' = RemoveAt(pendingTimers, i)
           /\ debounceTimer' =
                  IF debounceTimer = "live" /\ i = Len(pendingTimers)
                  THEN "dead" ELSE debounceTimer
           /\ searches' =
                  Append(searches, [value |-> pendingTimers[i].value,
                                    call |-> Fetching(SearchFetch(pendingTimers[i].value))])
    /\ acIsLoading' = TRUE
    /\ fetchCount' = fetchCount + 1
    /\ UNCHANGED <<utilVars, component, homeVars, scriptVars, inputValue, suggestions,
                   showSuggestions, hasCleanup, sinceChange>>

\* The timeout's callback after its await: the results, or the catch; then the
\* finally.
SearchSettled(i, http) ==
    LET r == IF component = "song" THEN searchTracksSettle(http)
             ELSE searchArtistsSettle(http)
    IN /\ suggestions' = IF r.state = "fulfilled" THEN r.value ELSE <<>>
       /\ showSuggestions' =
              IF r.state = "fulfilled" THEN Len(r.value) > 0 ELSE showSuggestions
       /\ acIsLoading' = FALSE
       /\ searches' = RemoveAt(searches, i)
       /\ UNCHANGED <<utilVars, component, fetchCount, homeVars, scriptVars, inputValue,
                      debounceTimer, pendingTimers, hasCleanup, sinceChange>>

SearchFetchRejects ==
    \E i \in 1..Len(searches) :
        /\ searches[i].call.phase = "fetch"
        /\ \E m \in NetworkMessages : SearchSettled(i, NetworkError(m))

SearchFetchResolves ==
    \E i \in 1..Len(searches) :
        /\ searches[i].call.phase = "fetch"
        /\ \/ /\ searches' = [searches EXCEPT ![i].call = Parsing(searches[i].call, TRUE)]
              /\ UNCHANGED <<utilVars, component, fetchCount, homeVars, scriptVars, inputValue,
                             suggestions, showSuggestions, acIsLoading, debounceTimer,
                             pendingTimers, hasCleanup, sinceChange>>
           \/ SearchSettled(i, Response(FALSE, None))

SearchJsonSettles ==
    \E i \in 1..Len(searches) :
        /\ searches[i].call.phase = "json"
        /\ \/ \E body \in (IF component = "song" THEN TrackSearchBodies
                           ELSE ArtistSearchBodies) :
                  SearchSettled(i, Response(TRUE, body))
           \/ \E m \in SyntaxMessages : SearchSettled(i, BadJson(TRUE, m))

\* handleSelectSong / handleSelectArtist: a click on a suggestion.
SelectSuggestion ==
    /\ component \in {"song", "artist"}
    /\ showSuggestions /\ Len(suggestions) > 0
    /\ inputValue' = <<>>
    /\ IF inputValue # <<>>
       THEN RunEffect(<<>>) /\ sinceChange' = 0
       ELSE /\ suggestions' = <<>>
            /\ showSuggestions' = FALSE
            /\ UNCHANGED <<debounceTimer, pendingTimers, hasCleanup, sinceChange>>
    /\ UNCHANGED <<utilVars, component, fetchCount, homeVars, scriptVars, acIsLoading, searches>>

NextAutocomplete ==
    \/ ChangeInput \/ TimePasses \/ TimerFires \/ SearchFetchRejects \/ SearchFetchResolves
    \/ SearchJsonSettles \/ SelectSuggestion

Next == NextHome \/ NextScript \/ NextAutocomplete

Spec == Init /\ [][Next]_vars


\* ------------------------------------------------- lib/spotify-utils.ts

\* Longest array handed to shuffleArray.
MaxLen == 3

Elements == {"a", "b", "c"}
ShuffleInputs == UNION {[1..n -> Elements] : n \in 0..MaxLen}

\* Math.random(), in hundredths: a number of [0, 1).
RandomValues == {0, 25, 50, 75, 99}

\* Math.floor(random * n).
FloorRandomTimes(random, n) == (random * n) \div 100

\* `shuffled[i] = shuffled[j]` alone, the other half of the exchange lost
\* (i and j are the zero-based indices of the code).
SwapOverwrites(seq, i, j) == [seq EXCEPT ![i + 1] = seq[j + 1]]

\* [seq[i], seq[j]] = [seq[j], seq[i]]
Swap(seq, i, j) == [seq EXCEPT ![i + 1] = seq[j + 1], ![j + 1] = seq[i + 1]]

\* shuffleArray, up to the loop: const shuffled = [...array]; i = length - 1.
ShuffleCall ==
    /\ util = "shuffleArray" /\ utilPc = "idle"
    /\ shuffled' = utilArgs.array
    /\ shuffleI' = Len(utilArgs.array) - 1
    /\ utilPc' = "loop"
    /\ UNCHANGED <<component, fetchCount, homeVars, scriptVars, acVars, util, utilArgs,
                   utilResult>>

\* One turn of the loop, for one outcome of Math.random.
ShuffleStep ==
    /\ util = "shuffleArray" /\ utilPc = "loop"
    /\ shuffleI > 0
    /\ \E random \in RandomValues :
           LET j == FloorRandomTimes(random, shuffleI + 1)
           IN shuffled' = Swap(shuffled, shuffleI, j)
    /\ shuffleI' = shuffleI - 1
    /\ UNCHANGED <<component, fetchCount, homeVars, scriptVars, acVars, util, utilArgs,
                   utilPc, utilResult>>

\* return shuffled
ShuffleReturn ==
    /\ util = "shuffleArray" /\ utilPc = "loop"
    /\ ~(shuffleI > 0)
    /\ utilResult' = Some(shuffled)
    /\ utilPc' = "returned"
    /\ UNCHANGED <<component, fetchCount, homeVars, scriptVars, acVars, util, utilArgs,
                   shuffled, shuffleI>>

\* Strings are sequences of one-character strings.
LowerCase ==
    {"a", "b", "c", "d", "e", "f", "g", "h", "i", "j", "k", "l", "m", "n", "o", "p",
     "q", "r", "s", "t", "u", "v", "w", "x", "y", "z"}
UpperCase ==
    {"A", "B", "C", "D", "E", "F", "G", "H", "I", "J", "K", "L", "M", "N", "O", "P",
     "Q", "R", "S", "T", "U", "V", "W", "X", "Y", "Z"}
Digits ==
    {"0", "1", "2", "3", "4", "5", "6", "7", "8", "9"}
Alphanumeric == LowerCase \cup UpperCase \cup Digits

SpotifyColon == <<"s", "p", "o", "t", "i", "f", "y", ":">>

\* `spotify:${id}:${type}`, the two parts exchanged.
generateSpotifyURISwapped(type, id) == SpotifyColon \o id \o <<":">> \o type

\* `spotify:${type}:${id}`
generateSpotifyURI(type, id) == SpotifyColon \o type \o <<":">> \o id

\* The characters of `class` that str has in a row from index `from` on: what a
\* greedy `[class]+` consumes there.
RECURSIVE Run(_, _, _)
Run(str, from, class) ==
    IF from <= Len(str) /\ str[from] \in class THEN 1 + Run(str, from + 1, class) ELSE 0

\* /spotify:([a-z]+):([a-zA-Z0-9]+)/ tried at index p: the lengths of the two
\* groups, or no match.  A shorter first group than the greedy one is followed
\* by a letter, never by the colon, so backtracking finds nothing more.
MatchAt(str, p) ==
    LET typeFrom == p + Len(SpotifyColon)
        typeLen == Run(str, typeFrom, LowerCase)
        colon == typeFrom + typeLen
        idLen == Run(str, colon + 1, Alphanumeric)
    IN IF /\ p + Len(SpotifyColon) - 1 <= Len(str)
          /\ SubSeq(str, p, p + Len(SpotifyColon) - 1) = SpotifyColon
          /\ typeLen >= 1
          /\ colon <= Len(str) /\ str[colon] = ":"
          /\ idLen >= 1
       THEN Some([type |-> SubSeq(str, typeFrom, colon - 1),
                  id |-> SubSeq(str, colon + 1, colon + idLen)])
       ELSE None

\* uri.match(regex): the leftmost match, or null (None).
RECURSIVE MatchFrom(_, _)
MatchFrom(str, p) ==
    IF p > Len(str) THEN None
    ELSE IF Len(MatchAt(str, p)) = 1 THEN MatchAt(str, p) ELSE MatchFrom(str, p + 1)

\* parseSpotifyURI: null (None) without a match, {type: match[1], id: match[2]}
\* otherwise.
parseSpotifyURI(uri) == MatchFrom(uri, 1)

UriTypes ==
    {<<"t", "r", "a", "c", "k">>, <<"p", "l", "a", "y", "l", "i", "s", "t">>,
     <<"a", "l", "b", "u", "m">>}
IdChars == {"a", "Z", "7"}
UriIds == UNION {[1..n -> IdChars] : n \in 1..MaxLen}

\* Strings handed to parseSpotifyURI: URIs and near-URIs, alone and inside
\* other text.
UriCores ==
    {generateSpotifyURI(<<"t", "r", "a", "c", "k">>, <<"a", "Z", "7">>),
     generateSpotifyURI(<<"a", "l", "b", "u", "m">>, <<"7">>),
     generateSpotifyURI(<<"T", "r", "a", "c", "k">>, <<"a">>),
     generateSpotifyURI(<<"t", "r", "4", "c", "k">>, <<"a">>),
     generateSpotifyURI(<<>>, <<"a">>),
     generateSpotifyURI(<<"t", "r", "a", "c", "k">>, <<>>),
     generateSpotifyURI(<<"t", "r", "a", "c", "k">>, <<"-", "a">>),
     generateSpotifyURI(<<"t", "r", "a", "c", "k">>, <<"a", "-", "Z">>),
     SpotifyColon, <<"s", "p", "o", "t", "i", "f", "y">>, <<>>,
     <<"S", "p", "o", "t", "i", "f", "y", ":", "a", ":", "a">>,
     <<"h", "t", "t", "p", ":", "a", ":", "a">>}
UriAffixes == {<<>>, <<"x">>, <<":">>, <<" ">>}
ParseInputs == {pre \o core \o post : pre \in UriAffixes, core \in UriCores, post \in UriAffixes}

\* generateSpotifyURI(type, id)
GenerateURI ==
    /\ util = "generateSpotifyURI" /\ utilPc = "idle"
    /\ utilResult' = Some(generateSpotifyURI(utilArgs.type, utilArgs.id))
    /\ utilPc' = "generated"
    /\ UNCHANGED <<component, fetchCount, homeVars, scriptVars, acVars, util, utilArgs,
                   shuffled, shuffleI>>

\* parseSpotifyURI(uri), for the URI generateSpotifyURI returned.
ParseGenerated ==
    /\ util = "generateSpotifyURI" /\ utilPc = "generated"
    /\ utilResult' = Some(parseSpotifyURI(utilResult[1]))
    /\ utilPc' = "returned"
    /\ UNCHANGED <<component, fetchCount, homeVars, scriptVars, acVars, util, utilArgs,
                   shuffled, shuffleI>>

\* parseSpotifyURI(uri)
ParseURI ==
    /\ util = "parseSpotifyURI" /\ utilPc = "idle"
    /\ utilResult' = Some(parseSpotifyURI(utilArgs.uri))
    /\ utilPc' = "returned"
    /\ UNCHANGED <<component, fetchCount, homeVars, scriptVars, acVars, util, utilArgs,
                   shuffled, shuffleI>>

\* Number.prototype.toString for a non-negative integer: its decimal digits.
DigitChars == <<"0", "1", "2", "3", "4", "5", "6", "7", "8", "9">>
RECURSIVE DecimalDigits(_)
DecimalDigits(n) ==
    IF n < 10 THEN <<DigitChars[n + 1]>>
    ELSE DecimalDigits(n \div 10) \o <<DigitChars[(n % 10) + 1]>>

\* String.prototype.padStart(targetLength, fill) for a one-character fill.
RECURSIVE PadStart(_, _, _)
PadStart(str, targetLength, fill) ==
    IF Len(str) >= targetLength THEN str
    ELSE PadStart(<<fill>> \o str, targetLength, fill)

\* `${minutes}:${seconds}`, the seconds not padded.
formatDurationNoPad(ms) ==
    LET totalSeconds == ms \div 1000
        minutes == totalSeconds \div 60
        seconds == totalSeconds % 60
    IN DecimalDigits(minutes) \o <<":">> \o DecimalDigits(seconds)

\* formatDuration(ms), for a non-negative integer ms (Math.floor of a
\* non-negative quotient is the integer division).
formatDuration(ms) ==
    LET totalSeconds == ms \div 1000
        minutes == totalSeconds \div 60
        seconds == totalSeconds % 60
    IN DecimalDigits(minutes) \o <<":">> \o PadStart(DecimalDigits(seconds), 2, "0")

\* Durations handed to formatDuration: every half second up to MaxHalfSeconds,
\* and values around the minute, ten-minute and hour marks.
MaxHalfSeconds == 250
DurationInputs ==
    {k * 500 : k \in 0..MaxHalfSeconds}
    \cup {1, 999, 1001, 9999, 59999, 60001, 183000, 599999, 600000, 3599999, 3600000,
          3661000, 5999999, 6000000, 86399999, 2147483647}

\* formatDuration(ms)
FormatDuration ==
    /\ util = "formatDuration" /\ utilPc = "idle"
    /\ utilResult' = Some(formatDuration(utilArgs.ms))
    /\ utilPc' = "returned"
    /\ UNCHANGED <<component, fetchCount, homeVars, scriptVars, acVars, util, utilArgs,
                   shuffled, shuffleI>>

\* The calls of the utilities this specification follows, one per behaviour.
UtilCall ==
    \/ util = "shuffleArray" /\ utilArgs \in {[array |-> a] : a \in ShuffleInputs}
    \/ util = "generateSpotifyURI"
           /\ utilArgs \in {[type |-> t, id |-> i] : t \in UriTypes, i \in UriIds}
    \/ util = "parseSpotifyURI" /\ utilArgs \in {[uri |-> u] : u \in ParseInputs}
    \/ util = "formatDuration" /\ utilArgs \in {[ms |-> ms] : ms \in DurationInputs}

InitUtils ==
    /\ component = "utils"
    /\ fetchCount = 0
    /\ mounted = FALSE
    /\ emotions = DEFAULT_EMOTIONS
    /\ selectedEmotion = Null
    /\ isLoading = FALSE
    /\ error = Null
    /\ playlistData = None
    /\ numTracks = 20
    /\ emotionsCall = Idle
    /\ generateCall = Idle
    /\ scriptCall = [method |-> "none", args |-> None, call |-> Idle]
    /\ scriptResult = None
    /\ inputValue = <<>>
    /\ suggestions = <<>>
    /\ showSuggestions = FALSE
    /\ acIsLoading = FALSE
    /\ debounceTimer = "null"
    /\ pendingTimers = <<>>
    /\ hasCleanup = FALSE
    /\ sinceChange = 0
    /\ searches = <<>>
    /\ UtilCall
    /\ utilPc = "idle"
    /\ shuffled = <<>>
    /\ shuffleI = 0
    /\ utilResult = None

NextUtils ==
    \/ ShuffleCall \/ ShuffleStep \/ ShuffleReturn
    \/ GenerateURI \/ ParseGenerated \/ ParseURI
    \/ FormatDuration

SpecUtils == InitUtils /\ [][NextUtils]_vars

\* ================================================================ claims

\* What a claim calls a failed request: fetch rejected, or the status is not OK.
HttpFailed(http) == http.kind = "network" \/ ~http.ok

\* A 200 answer whose body is the JSON the endpoint promises.
GenerateSucceeded(http) ==
    http.kind = "response" /\ http.ok /\ http.parses /\ Has(http.body, "playlist")

ScriptDone == scriptCall.call.phase = "done"
ScriptHttp == scriptCall.call.http[1]
ScriptPromise == scriptResult[1]
HomeDone == generateCall.phase = "done"
HomeHttp == generateCall.http[1]

\* C1 (as stated): whenever the HTTP request of a SpotifyAPI method fails
\* (network error or non-OK status), the promise returned to the caller
\* rejects; no method turns a failure into a normal return value.
C1_EveryFailureRejects ==
    (ScriptDone /\ HttpFailed(ScriptHttp)) => ScriptPromise.state = "rejected"

\* C1 (amended): on a failed request generatePlaylist, healthCheck,
\* searchByEmotion, getRecommendations, searchTrack and getTrackById reject;
\* getEmotions resolves with the ten default emotions; searchTracks and
\* searchArtists resolve with an empty list.
C1_FailureHandling ==
    (ScriptDone /\ HttpFailed(ScriptHttp)) =>
        CASE scriptCall.method = "getEmotions" ->
               /\ ScriptPromise.state = "fulfilled"
               /\ ScriptPromise.value = DEFAULT_EMOTIONS
          [] scriptCall.method \in {"searchTracks", "searchArtists"} ->
               /\ ScriptPromise.state = "fulfilled"
               /\ Len(ScriptPromise.value) = 0
          [] OTHER -> ScriptPromise.state = "rejected"

\* C1 witness: a caller's healthCheck whose request got a non-OK status has settled.
C1_Witness ==
    /\ ScriptDone
    /\ scriptCall.method = "healthCheck"
    /\ ScriptHttp.kind = "response" /\ ~ScriptHttp.ok
    /\ ScriptPromise.state = "rejected"

\* C2: searchByEmotion(emotion, numResults, includeCollage) sends a POST
\* /generate-playlist whose body has emotion = [emotion], num_results =
\* numResults (20 when omitted) and a collage flag equal to includeCollage (true
\* when omitted); Home's call asks for the collage.
C2_SearchByEmotionRequest ==
    /\ (scriptCall.method = "searchByEmotion" /\ scriptCall.call.phase = "fetch") =>
           LET req == scriptCall.call.req[1]
           IN /\ req.verb = "POST" /\ req.path = <<"generate-playlist">>
              /\ req.body.emotion = <<scriptCall.args.emotion>>
              /\ req.body.num_results = OrDefault(scriptCall.args.numResults, 20)
              /\ Has(req.body, "include_collage")
              /\ req.body.include_collage = OrDefault(scriptCall.args.includeCollage, TRUE)
    /\ generateCall.phase = "fetch" =>
           LET req == generateCall.req[1]
           IN Has(req.body, "include_collage") /\ req.body.include_collage = TRUE

\* C3: whenever the 200 body of /generate-playlist has a mood_collage, the
\* response generatePlaylist returns has that mood_collage, and Home, once
\* loading has finished, renders the mood collage section.
C3_MoodCollageReturned ==
    /\ (ScriptDone /\ scriptCall.method \in GeneratingMethods
            /\ GenerateSucceeded(ScriptHttp) /\ Has(ScriptHttp.body, "mood_collage")) =>
           /\ ScriptPromise.state = "fulfilled"
           /\ Has(ScriptPromise.value, "mood_collage")
           /\ ScriptPromise.value.mood_collage = ScriptHttp.body.mood_collage
    /\ (HomeDone /\ GenerateSucceeded(HomeHttp) /\ Has(HomeHttp.body, "mood_collage")) =>
           ShowsMoodCollage

\* The i-th track against the i-th song of the body, as C4 states it.
TrackMatches(track, song) ==
    /\ Has(track, "id")
    /\ IF Has(song, "spotify_id") /\ song.spotify_id # ""
       THEN track.id = song.spotify_id
       ELSE track.id \in GeneratedIds /\ track.id # ""
    /\ Has(track, "name") /\ track.name = song.song_name
    /\ \A f \in {"artist", "album", "preview_url", "similarity_score", "external_url",
                 "duration_ms", "popularity", "album_image"} :
           /\ Has(track, f) <=> Has(song, f)
           /\ Has(song, f) /\ Has(track, f) => track[f] = song[f]

ResponseMatches(value, body) ==
    /\ Has(value, "playlist")
    /\ Len(value.playlist) = Len(body.playlist)
    /\ \A i \in 1..Len(body.playlist) :
           i <= Len(value.playlist) => TrackMatches(value.playlist[i], body.playlist[i])
    /\ \A f \in {"emotion_features", "combined_embedding"} :
           /\ Has(value, f) <=> Has(body, f)
           /\ Has(value, f) /\ Has(body, f) => value[f] = body[f]

\* C4: for every successful response the playlist generatePlaylist returns has
\* the backend playlist's length and order; the i-th track has name =
\* song_name, and artist, album, preview_url, similarity_score, external_url,
\* duration_ms, popularity and album_image of the i-th song; its id is the
\* song's spotify_id when that is a non-empty string and a generated non-empty
\* id otherwise; emotion_features and combined_embedding pass through.
C4_PlaylistMapping ==
    /\ (ScriptDone /\ scriptCall.method \in GeneratingMethods
            /\ GenerateSucceeded(ScriptHttp)) =>
           /\ ScriptPromise.state = "fulfilled"
           /\ ResponseMatches(ScriptPromise.value, ScriptHttp.body)
    /\ (HomeDone /\ GenerateSucceeded(HomeHttp)) =>
           /\ Len(playlistData) = 1
           /\ ResponseMatches(playlistData[1], HomeHttp.body)

\* C4 witness: generatePlaylist has returned the mapping of a two-song body, one
\* song with a spotify_id and one without.
C4_Witness ==
    /\ ScriptDone /\ scriptCall.method = "generatePlaylist"
    /\ GenerateSucceeded(ScriptHttp)
    /\ ScriptHttp.body = BodyFull
    /\ ScriptPromise.state = "fulfilled"
    /\ Len(ScriptPromise.value.playlist) = 2

\* The tracks of a returned playlist carry the songs' audio_features, and the
\* badges follow.
FeaturesCarried(value, body) ==
    \A i \in 1..Len(body.playlist) :
        LET song == body.playlist[i]
            track == value.playlist[i]
        IN /\ Has(track, "audio_features") <=> Has(song, "audio_features")
           /\ Has(song, "audio_features") =>
                /\ Has(track, "audio_features")
                /\ track.audio_features = song.audio_features
                /\ song.audio_features.energy > 70 => "High Energy" \in TrackCardBadges(track)
                /\ song.audio_features.valence > 70 => "Upbeat" \in TrackCardBadges(track)
                /\ song.audio_features.danceability > 70 =>
                       "Danceable" \in TrackCardBadges(track)

\* C5: each track generatePlaylist returns carries the audio_features the
\* backend supplied for the song (absent only when it supplied none), so that
\* TrackCard shows High Energy / Upbeat / Danceable for a generated track whose
\* energy / valence / danceability exceeds 0.7.
C5_AudioFeaturesCarried ==
    /\ (ScriptDone /\ scriptCall.method \in GeneratingMethods
            /\ GenerateSucceeded(ScriptHttp) /\ ScriptPromise.state = "fulfilled") =>
           FeaturesCarried(ScriptPromise.value, ScriptHttp.body)
    /\ (HomeDone /\ GenerateSucceeded(HomeHttp) /\ Len(playlistData) = 1) =>
           FeaturesCarried(playlistData[1], HomeHttp.body)


\* The message C6 (as stated) expects after a failed generation.
StatedMessage(http) ==
    IF http.kind = "response" /\ http.parses /\ TruthyString(http.body, "detail")
    THEN http.body.detail ELSE "Failed to generate playlist"

\* The message of the error the client throws for a failed generation: the
\* body's detail or the fixed text when the error body is JSON, the message of
\* fetch's or the JSON parser's own error otherwise.
ThrownMessage(http) ==
    IF http.kind = "response" /\ http.parses THEN StatedMessage(http) ELSE http.message

\* C6 (as stated): after a /generate-playlist request of Home that rejected or
\* returned a non-OK status, isLoading = false and error is a non-empty
\* message: the backend's detail when the error body has one, 'Failed to
\* generate playlist' otherwise.  A new generation clears the message and a
\* successful one leaves it null.
C6_ErrorMessageAsStated ==
    /\ (HomeDone /\ HttpFailed(HomeHttp)) =>
           /\ ~isLoading
           /\ error # Null /\ error # ""
           /\ error = StatedMessage(HomeHttp)
    /\ InFlight(generateCall) => error = Null
    /\ (HomeDone /\ GenerateSucceeded(HomeHttp)) => error = Null

\* C6 (amended): after such a failure isLoading = false and error is the
\* message of the error the client threw: the detail when the non-OK body is
\* JSON with a non-empty string detail, 'Failed to generate playlist' when that
\* JSON has none, and the message of fetch's or the JSON parser's own error
\* when the request rejected or the body is not JSON.  A new generation clears
\* the message and a successful one leaves it null.
C6_ErrorMessage ==
    /\ (HomeDone /\ HttpFailed(HomeHttp)) =>
           /\ ~isLoading
           /\ error = ThrownMessage(HomeHttp)
           /\ (HomeHttp.kind = "response" /\ HomeHttp.parses) => ShowsError
    /\ InFlight(generateCall) => error = Null
    /\ (HomeDone /\ GenerateSucceeded(HomeHttp)) => error = Null

\* C6 witness: Home shows the detail of a non-OK answer.
C6_Witness ==
    /\ HomeDone /\ HomeHttp.kind = "response" /\ ~HomeHttp.ok /\ HomeHttp.parses
    /\ HomeHttp.body = ErrDetail
    /\ ~isLoading
    /\ error = "At least one song or emotion is required"

\* The requests in flight.
InFlightCount ==
    (IF InFlight(emotionsCall) THEN 1 ELSE 0) + (IF InFlight(generateCall) THEN 1 ELSE 0)
    + (IF InFlight(scriptCall.call) THEN 1 ELSE 0) + Len(searches)

\* The events that ask for a request: the Home mount, a Generate click with an
\* emotion selected, a debounce timer firing, a caller's call.
TriggerStep ==
    Mount \/ (GenerateClick /\ selectedEmotion # Null) \/ TimerFires \/ ScriptCalls

\* C7: one triggering event (a Generate click, a debounce timer expiry, the
\* Home mount) causes exactly one HTTP request, and no other step issues one:
\* a request that fails or rejects is never issued again.
C7_NoRetry ==
    [][/\ TriggerStep =>
            (fetchCount' = fetchCount + 1 /\ InFlightCount' = InFlightCount + 1)
       /\ ~TriggerStep =>
            (fetchCount' = fetchCount /\ InFlightCount' <= InFlightCount)]_vars

\* C7 witness: the mount and one click made two requests, the click's failed,
\* and nothing is in flight.
C7_Witness ==
    /\ HomeDone /\ HttpFailed(HomeHttp)
    /\ emotionsCall.phase = "done"
    /\ fetchCount = 2
    /\ InFlightCount = 0

EmotionsSucceeded(http) == http.kind = "response" /\ http.ok /\ http.parses

C9_LoadingIndicator ==
    /\ [](InFlight(generateCall) =>
            isLoading /\ ShowsSpinner /\ ~ShowsResults /\ ~ShowsEmptyState)
    /\ [][(InFlight(generateCall) /\ ~InFlight(generateCall')) => ~isLoading']_vars
    /\ [][(~isLoading /\ isLoading') => GenerateClick]_vars

\* C9 witness: a generation has settled and the spinner is gone.
C9_Witness == HomeDone /\ ~isLoading /\ ~ShowsSpinner

\* C10: every /generate-playlist request of Home carries an emotion list of
\* exactly one element, the emotion selected when Generate was clicked, and a
\* num_results that is the numTracks of that moment, one of 10, 20, 30, 50
\* (within 1..50); with no emotion selected the handler issues no request and
\* changes no state.
C10_HomeRequest ==
    /\ [](InFlight(generateCall) =>
            LET body == generateCall.req[1].body
            IN /\ Len(body.emotion) = 1
               /\ body.emotion[1] # Null
               /\ body.num_results \in {10, 20, 30, 50}
               /\ body.num_results >= 1 /\ body.num_results <= 50)
    /\ [][(generateCall.phase # "fetch" /\ generateCall'.phase = "fetch") =>
            /\ generateCall'.req[1].body.emotion = <<selectedEmotion>>
            /\ generateCall'.req[1].body.num_results = numTracks]_vars
    /\ [][(GenerateClick /\ selectedEmotion = Null) =>
            (UNCHANGED vars /\ ~InFlight(generateCall'))]_vars

\* C10 witness: a request of Home is in flight for the selected emotion.
C10_Witness ==
    /\ generateCall.phase = "fetch"
    /\ generateCall.req[1].body.emotion = <<"sad">>
    /\ generateCall.req[1].body.num_results = 50

\* C11: getRecommendations(seedTracks, emotion, numResults) issues one POST
\* /generate-playlist whose songs have the length and order of seedTracks, with
\* song_name = name and artist and spotify_id copied, whose num_results is
\* numResults (20 when omitted), and whose emotion is [emotion] when an emotion
\* is given and is absent when the emotion is omitted or empty.
C11_RecommendationsRequest ==
    (scriptCall.method = "getRecommendations" /\ scriptCall.call.phase = "fetch") =>
        LET req == scriptCall.call.req[1]
            body == req.body
            a == scriptCall.args
        IN /\ InFlightCount = 1
           /\ req.verb = "POST" /\ req.path = <<"generate-playlist">>
           /\ Has(body, "songs")
           /\ Len(body.songs) = Len(a.seedTracks)
           /\ \A i \in 1..Len(a.seedTracks) :
                  LET song == body.songs[i]
                      t == a.seedTracks[i]
                  IN /\ DOMAIN song \subseteq {"song_name", "artist", "spotify_id"}
                     /\ Has(song, "song_name") /\ song.song_name = t.name
                     /\ Has(song, "artist") /\ song.artist = t.artist
                     /\ Has(song, "spotify_id") <=> Has(t, "spotify_id")
                     /\ Has(t, "spotify_id") /\ Has(song, "spotify_id") =>
                            song.spotify_id = t.spotify_id
           /\ Has(body, "num_results")
           /\ body.num_results = OrDefault(a.numResults, 20)
           /\ IF Len(a.emotion) = 1 /\ a.emotion[1] # ""
              THEN Has(body, "emotion") /\ body.emotion = <<a.emotion[1]>>
              ELSE ~Has(body, "emotion")

\* C11 witness: a getRecommendations call with an empty emotion and two seed
\* tracks has sent its request, without an emotion.
C11_Witness ==
    /\ scriptCall.method = "getRecommendations" /\ scriptCall.call.phase = "fetch"
    /\ scriptCall.args.emotion = <<"">>
    /\ Len(scriptCall.call.req[1].body.songs) = 2
    /\ ~Has(scriptCall.call.req[1].body, "emotion")


\* The occurrences of e in seq.
Count(seq, e) == Cardinality({i \in 1..Len(seq) : seq[i] = e})

IsPermutation(a, b) ==
    /\ Len(a) = Len(b)
    /\ \A e \in Elements : Count(a, e) = Count(b, e)

\* C12: shuffleArray(array) returns a permutation of its input (same length,
\* same multiset of elements) for every input and every outcome of the random
\* choices, and leaves the input array unchanged.
C12_ShufflePermutes ==
    /\ []((util = "shuffleArray" /\ utilPc = "returned") =>
            IsPermutation(utilResult[1], utilArgs.array))
    /\ [][util = "shuffleArray" => utilArgs' = utilArgs]_vars

\* C12 witness: a three-element array with a repeated element came back in
\* another order.
C12_Witness ==
    /\ util = "shuffleArray" /\ utilPc = "returned"
    /\ utilArgs.array = <<"a", "b", "a">>
    /\ utilResult[1] = <<"a", "a", "b">>


\* str has 'spotify:<lowercase letters>:<alphanumerics>' in it: at some index
\* the text "spotify:", then n >= 1 lowercase letters, a colon, and m >= 1
\* alphanumerics.
ContainsSpotifyURI(str) ==
    \E p \in 1..Len(str) : \E n \in 1..Len(str) : \E m \in 1..Len(str) :
        LET from == p + Len(SpotifyColon)
        IN /\ from + n + m <= Len(str)
           /\ SubSeq(str, p, from - 1) = SpotifyColon
           /\ \A k \in from..(from + n - 1) : str[k] \in LowerCase
           /\ str[from + n] = ":"
           /\ \A k \in (from + n + 1)..(from + n + m) : str[k] \in Alphanumeric

\* C13: for every type of {track, playlist, album} and every non-empty
\* alphanumeric id, parseSpotifyURI(generateSpotifyURI(type, id)) returns
\* {type, id}; parseSpotifyURI returns null for every string that has no
\* 'spotify:<lowercase letters>:<alphanumerics>' in it.
C13_UriRoundTrip ==
    /\ (util = "generateSpotifyURI" /\ utilPc = "returned") =>
           utilResult[1] = Some([type |-> utilArgs.type, id |-> utilArgs.id])
    /\ (util = "parseSpotifyURI" /\ utilPc = "returned"
            /\ ~ContainsSpotifyURI(utilArgs.uri)) =>
           utilResult[1] = None

\* C13 witness: 'spotify:playlist:aZ7' was generated and parsed back.
C13_Witness ==
    /\ util = "generateSpotifyURI" /\ utilPc = "returned"
    /\ utilArgs.type = <<"p", "l", "a", "y", "l", "i", "s", "t">>
    /\ utilArgs.id = <<"a", "Z", "7">>
    /\ Len(utilResult[1]) = 1
    /\ utilResult[1][1].id = <<"a", "Z", "7">>

\* A string without the pattern was parsed to null.
C13_NullWitness ==
    /\ util = "parseSpotifyURI" /\ utilPc = "returned"
    /\ utilArgs.uri = <<"x">> \o generateSpotifyURI(<<"T", "r", "a", "c", "k">>, <<"a">>)
    /\ utilResult[1] = None


\* The number a string of decimal digits writes.
RECURSIVE DigitsValue(_)
DigitsValue(str) ==
    IF Len(str) = 0 THEN 0
    ELSE 10 * DigitsValue(SubSeq(str, 1, Len(str) - 1))
         + (CHOOSE d \in 0..9 : DigitChars[d + 1] = str[Len(str)])

IsDecimal(str) == Len(str) >= 1 /\ \A k \in 1..Len(str) : str[k] \in Digits

\* C14: for every non-negative integer ms, formatDuration(ms) is
\* floor(ms / 60000), a colon, and floor(ms / 1000) mod 60 written with exactly
\* two digits, so the seconds part is in 00..59.
C14_FormatDuration ==
    (util = "formatDuration" /\ utilPc = "returned") =>
        LET out == utilResult[1]
            ms == utilArgs.ms
            colons == {k \in 1..Len(out) : out[k] = ":"}
        IN /\ Cardinality(colons) = 1
           /\ LET colon == CHOOSE k \in colons : TRUE
                  minutes == SubSeq(out, 1, colon - 1)
                  seconds == SubSeq(out, colon + 1, Len(out))
              IN /\ IsDecimal(minutes)
                 /\ Len(minutes) > 1 => minutes[1] # "0"
                 /\ DigitsValue(minutes) = ms \div 60000
                 /\ Len(seconds) = 2
                 /\ IsDecimal(seconds)
                 /\ DigitsValue(seconds) = (ms \div 1000) % 60
                 /\ DigitsValue(seconds) \in 0..59

\* C14 witness: 65.5 seconds is written 1:05.
C14_Witness ==
    /\ util = "formatDuration" /\ utilPc = "returned"
    /\ utilArgs.ms = 65500
    /\ utilResult[1] = <<"1", ":", "0", "5">>


Autocomplete == component \in {"song", "artist"}

\* The value the request of a search carries.
SearchedValue(search) ==
    IF component = "song" THEN search.call.req[1].query.song_name
    ELSE search.call.req[1].query.artist_name

\* C15: SongAutocomplete and ArtistAutocomplete issue a search request only
\* when the input value has stayed unchanged for 300 ms and its trimmed length
\* is at least 2, and the request carries that value; every change of the input
\* cancels the pending timer, so at most one debounce timer is pending at any
\* time, and changes less than 300 ms apart produce at most one request, for
\* the final value.
C15_DebouncedSearch ==
    /\ [](Autocomplete =>
            /\ Len(pendingTimers) <= 1
            /\ \A i \in 1..Len(pendingTimers) :
                   /\ pendingTimers[i].value = inputValue
                   /\ pendingTimers[i].age = sinceChange
                   /\ Len(Trim(inputValue)) >= 2)
    /\ [][(Autocomplete /\ fetchCount' # fetchCount) =>
            /\ sinceChange >= 300
            /\ inputValue' = inputValue
            /\ Len(Trim(inputValue)) >= 2
            /\ fetchCount' = fetchCount + 1
            /\ Len(searches') = Len(searches) + 1
            /\ SearchedValue(searches'[Len(searches')]) = inputValue
            /\ pendingTimers' = <<>>]_vars
    /\ [][(Autocomplete /\ inputValue' # inputValue) =>
            /\ fetchCount' = fetchCount
            /\ sinceChange' = 0
            /\ \A i \in 1..Len(pendingTimers') :
                   pendingTimers'[i] = [value |-> inputValue', age |-> 0]]_vars

\* C15 witness: the search for "ab" went out 300 ms after the input was
\* changed to it; the user has typed on since, and the timer of the new value
\* has been pending for 100 ms.
C15_Witness ==
    /\ Autocomplete
    /\ Len(searches) = 1 /\ SearchedValue(searches[1]) = <<"a", "b">>
    /\ inputValue = <<" ", "a", "b">>
    /\ pendingTimers = <<[value |-> <<" ", "a", "b">>, age |-> 100]>>
    /\ fetchCount = 1


====
